---- MODULE Spec2Model ----
(***************************************************************************)
(* A model of cv_parser.py: header normalisation, section segmentation,    *)
(* the field extractors, the orchestrator and the file-level entry point.  *)
(* Text is modelled as a sequence of characters (one-character strings),   *)
(* so that upper(), strip(), split(), join() and the regular expressions   *)
(* are computed on characters as Python computes them.                     *)
(***************************************************************************)
EXTENDS Integers, Sequences, FiniteSets, TLC

----------------------------------------------------------------------------
(* Characters and the str methods the program uses                         *)

NL == "\n"
Tab == "\t"
Bullet == "<bullet>"
EnDash == "<endash>"
EmDash == "<emdash>"

LowerChars == <<"a","b","c","d","e","f","g","h","i","j","k","l","m","n","o","p","q","r","s","t","u","v","w","x","y","z">>
UpperChars == <<"A","B","C","D","E","F","G","H","I","J","K","L","M","N","O","P","Q","R","S","T","U","V","W","X","Y","Z">>
DigitChars == {"0","1","2","3","4","5","6","7","8","9"}

LowerSet == {LowerChars[k] : k \in 1..26}
UpperSet == {UpperChars[k] : k \in 1..26}
SpaceSet == {" ", Tab, NL}
WordSet == LowerSet \cup UpperSet \cup DigitChars \cup {"_"}

\* code-point order of the characters that occur in taxonomy names
CharRank(c) ==
    IF c = " " THEN 0
    ELSE IF c \in UpperSet THEN CHOOSE k \in 1..26 : UpperChars[k] = c
    ELSE IF c \in LowerSet THEN 100 + (CHOOSE k \in 1..26 : LowerChars[k] = c)
    ELSE 50

\* str.upper() on one character
UpperChar(c) ==
    IF c \in LowerSet THEN UpperChars[CHOOSE k \in 1..26 : LowerChars[k] = c] ELSE c

\* str.lower() on one character
LowerChar(c) ==
    IF c \in UpperSet THEN LowerChars[CHOOSE k \in 1..26 : UpperChars[k] = c] ELSE c

Upper(s) == [k \in 1..Len(s) |-> UpperChar(s[k])]
Lower(s) == [k \in 1..Len(s) |-> LowerChar(s[k])]

\* s[a..b], empty when a > b
Slice(s, a, b) == IF a > b THEN <<>> ELSE SubSeq(s, a, b)

\* the smallest and the largest element of a non-empty set of integers
MinOf(S) == CHOOSE k \in S : \A m \in S : k <= m
MaxOf(S) == CHOOSE k \in S : \A m \in S : k >= m

\* s from the first to the last of the positions in keep
Trim(s, keep) == IF keep = {} THEN <<>> ELSE SubSeq(s, MinOf(keep), MaxOf(keep))

\* str.strip(): drop leading and trailing whitespace
Strip(s) == Trim(s, {k \in 1..Len(s) : s[k] \notin SpaceSet})

\* len(s.split()): the number of maximal runs of non-whitespace characters
WordCount(s) ==
    Cardinality({k \in 1..Len(s) :
        /\ s[k] \notin SpaceSet
        /\ (k = 1 \/ s[k-1] \in SpaceSet)})

\* str.isupper(): at least one cased character and no lowercase one
IsUpper(s) ==
    /\ \E k \in 1..Len(s) : s[k] \in UpperSet
    /\ \A k \in 1..Len(s) : s[k] \notin LowerSet

\* str.istitle(): uppercase only after uncased, lowercase only after cased
IsTitle(s) ==
    /\ \E k \in 1..Len(s) : s[k] \in UpperSet \cup LowerSet
    /\ \A k \in 1..Len(s) :
          LET prevCased == k > 1 /\ s[k-1] \in UpperSet \cup LowerSet
          IN /\ (s[k] \in UpperSet => ~prevCased)
             /\ (s[k] \in LowerSet => prevCased)

\* a in b for strings
Contains(b, a) ==
    \E k \in 1..(Len(b) - Len(a) + 1) : SubSeq(b, k, k + Len(a) - 1) = a

\* the position of the first character of s that is in seps, Len(s) + 1
\* when there is none
FirstHit(s, seps) == MinOf({k \in 1..Len(s) : s[k] \in seps} \cup {Len(s) + 1})

RECURSIVE SplitOn(_, _)
RECURSIVE SplitAtFirst(_, _, _)

SplitAtFirst(s, seps, k) ==
    IF k > Len(s) THEN <<s>>
    ELSE <<Slice(s, 1, k - 1)>> \o SplitOn(Slice(s, k + 1, Len(s)), seps)

\* s.split(sep), and re.split on a character class: the pieces between
\* the characters of seps
SplitOn(s, seps) == SplitAtFirst(s, seps, FirstHit(s, seps))

\* sep.join(parts)
RECURSIVE Join(_, _)
Join(parts, sep) ==
    IF Len(parts) = 0 THEN <<>>
    ELSE IF Len(parts) = 1 THEN parts[1]
    ELSE parts[1] \o sep \o Join(Tail(parts), sep)

\* [x for x in seq if x]
RECURSIVE SelectNonEmpty(_)
SelectNonEmpty(seq) ==
    IF Len(seq) = 0 THEN <<>>
    ELSE IF Head(seq) = <<>> THEN SelectNonEmpty(Tail(seq))
    ELSE <<Head(seq)>> \o SelectNonEmpty(Tail(seq))

\* [x.strip() for x in seq]
StripAll(seq) == [k \in 1..Len(seq) |-> Strip(seq[k])]

\* [line.strip() for line in text.split('\n') if line.strip()]
StrippedLines(txt) == SelectNonEmpty(StripAll(SplitOn(txt, {NL})))

----------------------------------------------------------------------------
(* The taxonomy                                                            *)

STANDARD_SECTIONS ==
    <<
    <<"A","B","O","U","T"," ","M","E">>,
    <<"S","U","M","M","A","R","Y">>,
    <<"P","R","O","F","I","L","E">>,
    <<"O","B","J","E","C","T","I","V","E">>,
    <<"E","X","P","E","R","I","E","N","C","E">>,
    <<"W","O","R","K"," ","E","X","P","E","R","I","E","N","C","E">>,
    <<"P","R","O","F","E","S","S","I","O","N","A","L"," ","E","X","P","E","R","I","E","N","C","E">>,
    <<"E","M","P","L","O","Y","M","E","N","T"," ","H","I","S","T","O","R","Y">>,
    <<"E","D","U","C","A","T","I","O","N">>,
    <<"A","C","A","D","E","M","I","C"," ","B","A","C","K","G","R","O","U","N","D">>,
    <<"Q","U","A","L","I","F","I","C","A","T","I","O","N","S">>,
    <<"S","K","I","L","L","S">>,
    <<"T","E","C","H","N","I","C","A","L"," ","S","K","I","L","L","S">>,
    <<"S","O","F","T"," ","S","K","I","L","L","S">>,
    <<"L","A","N","G","U","A","G","E"," ","S","K","I","L","L","S">>,
    <<"P","R","O","J","E","C","T","S">>,
    <<"R","E","S","E","A","R","C","H"," ","P","R","O","J","E","C","T","S">>,
    <<"C","E","R","T","I","F","I","C","A","T","I","O","N","S">>,
    <<"T","R","A","I","N","I","N","G">>,
    <<"C","O","U","R","S","E","S">>,
    <<"L","A","N","G","U","A","G","E","S">>,
    <<"L","A","N","G","U","A","G","E"," ","P","R","O","F","I","C","I","E","N","C","Y">>,
    <<"C","O","N","T","A","C","T">>,
    <<"C","O","N","T","A","C","T"," ","I","N","F","O","R","M","A","T","I","O","N">>,
    <<"P","E","R","S","O","N","A","L"," ","D","E","T","A","I","L","S">>,
    <<"I","N","T","E","R","E","S","T","S">>,
    <<"H","O","B","B","I","E","S">>,
    <<"A","D","D","I","T","I","O","N","A","L"," ","A","C","T","I","V","I","T","I","E","S">>,
    <<"V","O","L","U","N","T","E","E","R","I","N","G">>,
    <<"V","O","L","U","N","T","E","E","R"," ","W","O","R","K">>,
    <<"A","W","A","R","D","S">>,
    <<"A","C","H","I","E","V","E","M","E","N","T","S">>,
    <<"H","O","N","O","R","S">>,
    <<"P","U","B","L","I","C","A","T","I","O","N","S">>,
    <<"R","E","S","E","A","R","C","H"," ","P","A","P","E","R","S">>,
    <<"R","E","F","E","R","E","N","C","E","S">>
    >>

GENERAL_INFORMATION == <<"G","E","N","E","R","A","L"," ","I","N","F","O","R","M","A","T","I","O","N">>

----------------------------------------------------------------------------
(* difflib.get_close_matches, as called by normalize_section_header        *)

RECURSIVE CommonLen(_, _, _, _, _, _)
\* length of the longest common prefix of a[i..ahi] and b[j..bhi]
CommonLen(a, b, i, j, ahi, bhi) ==
    IF i > ahi \/ j > bhi \/ a[i] # b[j] THEN 0
    ELSE 1 + CommonLen(a, b, i + 1, j + 1, ahi, bhi)

\* the order in which find_longest_match prefers blocks <<i, j, size>>:
\* the longest, then the earliest in a, then the earliest in b
BetterBlock(t, u) ==
    \/ t[3] > u[3]
    \/ /\ t[3] = u[3]
       /\ \/ t[1] < u[1]
          \/ t[1] = u[1] /\ t[2] <= u[2]

LongestBlock(blocks) == CHOOSE t \in blocks : \A u \in blocks : BetterBlock(t, u)

\* SequenceMatcher.find_longest_match on a[alo..ahi] and b[blo..bhi] (both
\* non-empty): <<i, j, size>>, which is <<alo, blo, 0>> when nothing matches
find_longest_match(a, b, alo, ahi, blo, bhi) ==
    LongestBlock({<<i, j, CommonLen(a, b, i, j, ahi, bhi)>> :
                      i \in alo..ahi, j \in blo..bhi})

RECURSIVE MatchedChars(_, _, _, _, _, _)
RECURSIVE MatchedAround(_, _, _, _, _, _, _)

\* the block m and the blocks found to its left and to its right
MatchedAround(a, b, alo, ahi, blo, bhi, m) ==
    IF m[3] = 0 THEN 0
    ELSE m[3]
         + MatchedChars(a, b, alo, m[1] - 1, blo, m[2] - 1)
         + MatchedChars(a, b, m[1] + m[3], ahi, m[2] + m[3], bhi)

\* sum of the sizes of SequenceMatcher.get_matching_blocks
MatchedChars(a, b, alo, ahi, blo, bhi) ==
    IF alo > ahi \/ blo > bhi THEN 0
    ELSE MatchedAround(a, b, alo, ahi, blo, bhi,
                       find_longest_match(a, b, alo, ahi, blo, bhi))

Min(x, y) == IF x <= y THEN x ELSE y

\* number of k in 1..Len(s) with s[k] = c
CountChar(s, c) == Cardinality({k \in 1..Len(s) : s[k] = c})

\* the numerator of quick_ratio, the size of the multiset intersection: an
\* occurrence of a character in a counts while b has that many occurrences
QuickMatches(a, b) ==
    Cardinality({k \in 1..Len(a) :
                    CountChar(SubSeq(a, 1, k), a[k]) <= CountChar(b, a[k])})

\* 2.0 * matches / length >= cutoff, with cutoff = CutoffNum / CutoffDen;
\* _calculate_ratio returns 1.0 when length is 0
CutoffNum == 7
CutoffDen == 10
RatioAtLeastCutoff(matches, length) ==
    IF length = 0 THEN TRUE
    ELSE 2 * matches * CutoffDen >= CutoffNum * length

\* comparison of two ratios 2*m1/l1 and 2*m2/l2 (l1, l2 > 0)
RatioLess(m1, l1, m2, l2) == m1 * l2 < m2 * l1
RatioEq(m1, l1, m2, l2) == m1 * l2 = m2 * l1

RECURSIVE StrLess(_, _)
\* Python's < on strings
StrLess(s, t) ==
    IF Len(t) = 0 THEN FALSE
    ELSE IF Len(s) = 0 THEN TRUE
    ELSE IF s[1] # t[1] THEN CharRank(s[1]) < CharRank(t[1])
    ELSE StrLess(Tail(s), Tail(t))

\* real_quick_ratio and quick_ratio of x and word reach the cutoff
QuickPass(x, word) ==
    /\ RatioAtLeastCutoff(Min(Len(x), Len(word)), Len(x) + Len(word))
    /\ RatioAtLeastCutoff(QuickMatches(x, word), Len(x) + Len(word))

\* a candidate with its ratio 2 * matches / length: <<matches, length, x>>
Scored(x, word) ==
    <<MatchedChars(x, word, 1, Len(x), 1, Len(word)), Len(x) + Len(word), x>>

\* (score, x) < (score', x') as Python compares the result tuples
ScoredLess(u, t) ==
    \/ RatioLess(u[1], u[2], t[1], t[2])
    \/ /\ RatioEq(u[1], u[2], t[1], t[2])
       /\ StrLess(u[3], t[3])

\* heapq.nlargest(1, result): the largest (score, x), as a list of x
Largest(found) ==
    IF found = {} THEN <<>>
    ELSE <<(CHOOSE t \in found : \A u \in found \ {t} : ScoredLess(u, t))[3]>>

\* get_close_matches(word, possibilities, n=1, cutoff=0.7): the candidates
\* that pass real_quick_ratio, quick_ratio and ratio, then the largest
\* (score, x) pair; <<>> when no candidate passes
get_close_matches(word, possibilities) ==
    Largest({t \in {Scored(possibilities[k], word) :
                       k \in {m \in DOMAIN possibilities :
                                 QuickPass(possibilities[m], word)}} :
                RatioAtLeastCutoff(t[1], t[2])})

----------------------------------------------------------------------------
(* normalize_section_header                                                *)

\* Python's None: a value distinct from every string
None == <<"<None>">>

\* truth value of an Optional[str]: None and "" are false
Truthy(v) == v # None /\ v # <<>>

\* the elements of a list
Range(f) == {f[k] : k \in DOMAIN f}

InTaxonomy(s) == s \in Range(STANDARD_SECTIONS)

W_WORK == <<"W","O","R","K">>
W_HISTORY == <<"H","I","S","T","O","R","Y">>
W_EDUCATION == <<"E","D","U","C","A","T","I","O","N">>
W_QUALIFICATION == <<"Q","U","A","L","I","F","I","C","A","T","I","O","N">>
W_CONTACT == <<"C","O","N","T","A","C","T">>
W_DETAILS == <<"D","E","T","A","I","L","S">>
WORK_EXPERIENCE == <<"W","O","R","K"," ","E","X","P","E","R","I","E","N","C","E">>

\* ClosestOrKeyword returning the header itself when a fuzzy match exists
ClosestOrKeyword_KeepsHeader(header_upper, matches) ==
    IF Len(matches) > 0 THEN header_upper
    ELSE IF Contains(header_upper, W_WORK) /\ Contains(header_upper, W_HISTORY)
    THEN WORK_EXPERIENCE
    ELSE IF Contains(header_upper, W_EDUCATION)
            \/ Contains(header_upper, W_QUALIFICATION)
    THEN W_EDUCATION
    ELSE IF Contains(header_upper, W_CONTACT) \/ Contains(header_upper, W_DETAILS)
    THEN W_CONTACT
    ELSE None

\* lines 80-91: the fuzzy match if there is one, else the keyword rules
ClosestOrKeyword(header_upper, matches) ==
    IF Len(matches) > 0 THEN matches[1]
    ELSE IF Contains(header_upper, W_WORK) /\ Contains(header_upper, W_HISTORY)
    THEN WORK_EXPERIENCE
    ELSE IF Contains(header_upper, W_EDUCATION)
            \/ Contains(header_upper, W_QUALIFICATION)
    THEN W_EDUCATION
    ELSE IF Contains(header_upper, W_CONTACT) \/ Contains(header_upper, W_DETAILS)
    THEN W_CONTACT
    ELSE None

\* lines 74-91, on the uppercased and stripped header
NormalizeUpper(header_upper) ==
    IF InTaxonomy(header_upper) THEN header_upper
    ELSE ClosestOrKeyword(header_upper,
                          get_close_matches(header_upper, STANDARD_SECTIONS))

normalize_section_header(header) == NormalizeUpper(Strip(Upper(header)))

----------------------------------------------------------------------------
(* Python's re, for the patterns the program uses.  A pattern is a tree;   *)
(* Ends(re, s, p) lists, in the order the backtracking matcher tries them, *)
(* the positions where a match of re that starts after p characters of s   *)
(* can end.  The first element is the match Python reports.                *)

Inf == -1

Chr(S) == [t |-> "in", s |-> S]
NotChr(S) == [t |-> "notin", s |-> S]
Cat(rs) == [t |-> "cat", rs |-> rs]
Alt(rs) == [t |-> "alt", rs |-> rs]
Rep(r, lo, hi) == [t |-> "rep", r |-> r, lo |-> lo, hi |-> hi]
Bol == [t |-> "bol"]
Eol == [t |-> "eol"]
Lit(w) == Cat([k \in 1..Len(w) |-> Chr({w[k]})])
\* a literal under re.IGNORECASE
LitI(w) == Cat([k \in 1..Len(w) |-> Chr({LowerChar(w[k]), UpperChar(w[k])})])

RECURSIVE Ends(_, _, _)
RECURSIVE CatEnds(_, _, _)
RECURSIVE CatFrom(_, _, _)
RECURSIVE AltEnds(_, _, _)
RECURSIVE RepEnds(_, _, _, _, _, _)
RECURSIVE RepFrom(_, _, _, _, _, _)

Ends(re, s, p) ==
    CASE re.t = "in" ->
            IF p < Len(s) /\ s[p + 1] \in re.s THEN <<p + 1>> ELSE <<>>
      [] re.t = "notin" ->
            IF p < Len(s) /\ s[p + 1] \notin re.s THEN <<p + 1>> ELSE <<>>
      [] re.t = "bol" -> IF p = 0 THEN <<p>> ELSE <<>>
      [] re.t = "eol" ->
            IF p = Len(s) \/ (p = Len(s) - 1 /\ s[Len(s)] = NL)
            THEN <<p>> ELSE <<>>
      [] re.t = "cat" -> CatEnds(re.rs, s, p)
      [] re.t = "alt" -> AltEnds(re.rs, s, p)
      [] re.t = "rep" -> RepEnds(re.r, re.lo, re.hi, s, p, 0)

CatEnds(rs, s, p) ==
    IF Len(rs) = 0 THEN <<p>>
    ELSE CatFrom(Tail(rs), s, Ends(Head(rs), s, p))

CatFrom(rs, s, ends) ==
    IF Len(ends) = 0 THEN <<>>
    ELSE CatEnds(rs, s, Head(ends)) \o CatFrom(rs, s, Tail(ends))

AltEnds(rs, s, p) ==
    IF Len(rs) = 0 THEN <<>>
    ELSE Ends(Head(rs), s, p) \o AltEnds(Tail(rs), s, p)

\* a one-character pattern accepts the character c
Accepts(r, c) == IF r.t = "in" THEN c \in r.s ELSE c \notin r.s

\* the number of consecutive characters after position p that a
\* one-character pattern accepts
Run(r, s, p) ==
    MinOf({k \in (p + 1)..Len(s) : ~Accepts(r, s[k])} \cup {Len(s) + 1}) - 1 - p

\* the iterations left to a repetition that has made n of at most hi,
\* when the text allows run more
Clip(run, hi, n) == IF hi = Inf \/ run <= hi - n THEN run ELSE hi - n

\* the ends after least..top more characters, longest first
RunEnds(p, top, least) == [k \in 1..(top - least + 1) |-> p + top - k + 1]

\* the ends that consumed at least one character
Progress(ends, p) == SelectSeq(ends, LAMBDA e : e > p)

\* greedy repetition: one more iteration is tried before stopping, so the
\* ends are listed longest first
RepEnds(r, lo, hi, s, p, n) ==
    IF r.t \in {"in", "notin"}
    THEN RunEnds(p, Clip(Run(r, s, p), hi, n), IF lo > n THEN lo - n ELSE 0)
    ELSE (IF hi = Inf \/ n < hi
          THEN RepFrom(r, lo, hi, s, Progress(Ends(r, s, p), p), n + 1)
          ELSE <<>>)
         \o (IF n >= lo THEN <<p>> ELSE <<>>)

RepFrom(r, lo, hi, s, ends, n) ==
    IF Len(ends) = 0 THEN <<>>
    ELSE RepEnds(r, lo, hi, s, Head(ends), n)
         \o RepFrom(r, lo, hi, s, Tail(ends), n)

NoMatch == <<>>

\* the match that starts at q, given the ends the matcher finds: <<q, end>>
FirstSpan(q, ends) == IF Len(ends) = 0 THEN NoMatch ELSE <<q, Head(ends)>>

SpanAt(re, s, q) == FirstSpan(q, Ends(re, s, q))

\* re.match: <<0, end>> or NoMatch
re_match(re, s) == SpanAt(re, s, 0)

Leftmost(spans) ==
    IF spans = {} THEN NoMatch
    ELSE CHOOSE m \in spans : \A x \in spans : m[1] <= x[1]

\* the leftmost match that starts at or after position p: <<start, end>>
SearchFrom(re, s, p) == Leftmost({SpanAt(re, s, q) : q \in p..Len(s)} \ {NoMatch})

\* re.search
re_search(re, s) == SearchFrom(re, s, 0)

\* the text of a match
Group(s, m) == Slice(s, m[1] + 1, m[2])

RECURSIVE Spans(_, _, _)
RECURSIVE SpansAfter(_, _, _)

SpansAfter(re, s, m) ==
    IF m = NoMatch THEN <<>>
    ELSE <<m>> \o Spans(re, s, IF m[2] > m[1] THEN m[2] ELSE m[2] + 1)

\* the non-overlapping matches, left to right, that findall and split use
Spans(re, s, p) == SpansAfter(re, s, SearchFrom(re, s, p))

Groups(s, sp) == [k \in 1..Len(sp) |-> Group(s, sp[k])]

\* re.findall for a pattern whose only group, if any, is the whole match
re_findall(re, s) == Groups(s, Spans(re, s, 0))

\* the text before, between and after the matches sp
Pieces(s, sp) ==
    [k \in 1..(Len(sp) + 1) |->
        Slice(s, IF k = 1 THEN 1 ELSE sp[k - 1][2] + 1,
                 IF k = Len(sp) + 1 THEN Len(s) ELSE sp[k][1])]

\* re.split for a pattern without groups: the pieces between the matches
re_split(re, s) == Pieces(s, Spans(re, s, 0))

----------------------------------------------------------------------------
(* The patterns of cv_parser.py                                            *)

ReDigit == Chr(DigitChars)
ReSpace == Chr(SpaceSet)
Dash == Chr({"-", EnDash, EmDash})
CapWord == Cat(<<Chr(UpperSet), Rep(Chr(LowerSet), 1, Inf)>>)
W_Present == <<"P","r","e","s","e","n","t">>

\* ^[A-Z][a-z]+( [A-Z][a-z]+)*$
TitleCaseRe ==
    Cat(<<Bol, CapWord, Rep(Cat(<<Chr({" "}), CapWord>>), 0, Inf), Eol>>)

\* (Bachelor|Master|PhD|B\.Sc|M\.Sc|Diploma|Degree|Licence|Engineering), re.IGNORECASE
DegreeRe ==
    Alt(<<LitI(<<"B","a","c","h","e","l","o","r">>), LitI(<<"M","a","s","t","e","r">>), LitI(<<"P","h","D">>), LitI(<<"B",".","S","c">>),
          LitI(<<"M",".","S","c">>), LitI(<<"D","i","p","l","o","m","a">>), LitI(<<"D","e","g","r","e","e">>), LitI(<<"L","i","c","e","n","c","e">>),
          LitI(<<"E","n","g","i","n","e","e","r","i","n","g">>)>>)

\* (University|School|College|Institute), re.IGNORECASE
InstitutionRe ==
    Alt(<<LitI(<<"U","n","i","v","e","r","s","i","t","y">>), LitI(<<"S","c","h","o","o","l">>), LitI(<<"C","o","l","l","e","g","e">>),
          LitI(<<"I","n","s","t","i","t","u","t","e">>)>>)

\* (\d{4})\s?[-...]\s?(\d{4}|Present)
DateRe ==
    Cat(<<Rep(ReDigit, 4, 4), Rep(ReSpace, 0, 1), Dash, Rep(ReSpace, 0, 1),
          Alt(<<Rep(ReDigit, 4, 4), Lit(W_Present)>>)>>)

\* ^[A-Z][a-zA-Z0-9& ]+,\s[A-Z][a-z]+\s\d{4}\s?[-...]\s?(\w+\s\d{4}|Present)
CompanyDateRe ==
    Cat(<<Bol, Chr(UpperSet),
          Rep(Chr(LowerSet \cup UpperSet \cup DigitChars \cup {"&", " "}), 1, Inf),
          Chr({","}), ReSpace, CapWord, ReSpace, Rep(ReDigit, 4, 4),
          Rep(ReSpace, 0, 1), Dash, Rep(ReSpace, 0, 1),
          Alt(<<Cat(<<Rep(Chr(WordSet), 1, Inf), ReSpace, Rep(ReDigit, 4, 4)>>),
                Lit(W_Present)>>)>>)

\* ,\s|\s[-...]\s
CompanySplitRe == Alt(<<Cat(<<Chr({","}), ReSpace>>), Cat(<<ReSpace, Dash, ReSpace>>)>>)

\* ^(bullet)\s
BulletRe == Cat(<<Bol, Chr({Bullet}), ReSpace>>)

\* [\w\.-]+@[\w\.-]+\.\w+
EmailRe ==
    Cat(<<Rep(Chr(WordSet \cup {".", "-"}), 1, Inf), Chr({"@"}),
          Rep(Chr(WordSet \cup {".", "-"}), 1, Inf), Chr({"."}),
          Rep(Chr(WordSet), 1, Inf)>>)

\* (\+?\d[\d\s\-\(\)]{7,}\d)
PhoneRe ==
    Cat(<<Rep(Chr({"+"}), 0, 1), ReDigit,
          Rep(Chr(DigitChars \cup SpaceSet \cup {"-", "(", ")"}), 7, Inf), ReDigit>>)

\* (linkedin\.com/[^\s]+), re.I
LinkedinRe == Cat(<<LitI(<<"l","i","n","k","e","d","i","n",".","c","o","m","/">>), Rep(NotChr(SpaceSet), 1, Inf)>>)

\* (\d{1,5}\s[\w\s]{3,},\s[\w\s]{3,},\s[A-Z]{2}\s\d{5})
AddressRe ==
    Cat(<<Rep(ReDigit, 1, 5), ReSpace, Rep(Chr(WordSet \cup SpaceSet), 3, Inf), Chr({","}),
          ReSpace, Rep(Chr(WordSet \cup SpaceSet), 3, Inf), Chr({","}),
          ReSpace, Rep(Chr(UpperSet), 2, 2), ReSpace, Rep(ReDigit, 5, 5)>>)

\* [,(bullet)\n]
ItemSeps == {",", Bullet, NL}

----------------------------------------------------------------------------
(* Python dicts.  An insertion-ordered dict (sections) is a sequence of    *)
(* <<key, value>> pairs; the entry dicts and the returned mappings, whose  *)
(* order is never used, are functions from keys to values.                 *)

EmptyDict == <<>>

HasKey(d, k) == \E m \in 1..Len(d) : d[m][1] = k
Get(d, k) == d[CHOOSE m \in 1..Len(d) : d[m][1] = k][2]
\* d[k] = v: replaces the value of an existing key, else appends the key
Put(d, k, v) ==
    IF HasKey(d, k)
    THEN [m \in 1..Len(d) |-> IF d[m][1] = k THEN <<k, v>> ELSE d[m]]
    ELSE Append(d, <<k, v>>)
Keys(d) == [m \in 1..Len(d) |-> d[m][1]]

\* f[k] = v on a mapping modelled as a function
SetKey(f, k, v) == [x \in DOMAIN f \cup {k} |-> IF x = k THEN v ELSE f[x]]

----------------------------------------------------------------------------
(* Bounded inputs                                                          *)

\* all sequences over S of length at most n
SeqsUpTo(S, n) == UNION {[1..k -> S] : k \in 0..n}

\* the raw lines that segmentation inputs are built from: a taxonomy
\* header, an all-uppercase and a title-case header outside the taxonomy,
\* two content lines (one with surrounding whitespace) and a
\* whitespace-only line
MaxSegLines == 5
SegAlphabet ==
    {<<"S","K","I","L","L","S">>, <<"E","R","R","O","R">>, <<"N","o","t","e","s">>, <<" ","p","y","t","h","o","n",","," ","j","a","v","a"," ">>, <<"2","0","1","8"," ","-"," ","2","0","2","2">>, <<" "," ">>}

\* the raw lines that documents handed to process_file are built from
MaxFileLines == 3
FileAlphabet ==
    {<<"S","K","I","L","L","S">>, <<"E","R","R","O","R">>, <<" ","p","y","t","h","o","n",","," ","j","a","v","a"," ">>, <<"j","a","n","e",".","d","o","e","@","e","x","a","m","p","l","e",".","c","o","m">>, <<" "," ">>}

\* the paths process_file is called with
FilePaths ==
    {<<"c","v",".","p","d","f">>, <<"C","V",".","P","D","F">>, <<"s","c","a","n",".","p","n","g">>, <<"m","e",".","J","p","g">>, <<"p",".","j","p","e","g">>, <<"n","o","t","e","s",".","t","x","t">>, <<"d","i","r",".","p","d","f","/","c","v">>, <<".","p","d","f">>}

\* the messages of the exceptions the text extraction can raise
ExtractionErrors == {<<"c","a","n","n","o","t"," ","o","p","e","n"," ","b","r","o","k","e","n"," ","d","o","c","u","m","e","n","t">>, <<"t","e","s","s","e","r","a","c","t"," ","i","s"," ","n","o","t"," ","i","n","s","t","a","l","l","e","d">>}

\* the raw lines of the documents whose sections are dispatched: two
\* headers that route to the output key "skills", a header with a key of
\* its own, and two content lines
MaxParLines == 4
ParAlphabet ==
    {<<"S","K","I","L","L","S">>, <<"T","e","c","h","n","i","c","a","l"," ","S","k","i","l","l","s">>, <<"L","A","N","G","U","A","G","E","S">>, <<" ","p","y","t","h","o","n",","," ","j","a","v","a"," ">>, <<"e","n","g","l","i","s","h",","," ","f","r","e","n","c","h">>}

\* the lines the entry accumulators are run on: for extract_education a
\* degree line, a line that matches the degree and the institution
\* patterns, two institution lines, a date line and a line that matches
\* nothing; for extract_experience two title lines, a company line that
\* splits in three parts, one that splits in two, a bullet line and a line
\* that matches nothing
MaxAccLines == 3
EduAlphabet ==
    {<<"B","a","c","h","e","l","o","r"," ","o","f"," ","S","c","i","e","n","c","e">>, <<"S","c","h","o","o","l"," ","o","f"," ","E","n","g","i","n","e","e","r","i","n","g">>, <<"M","I","T"," ","U","n","i","v","e","r","s","i","t","y">>, <<"O","x","f","o","r","d"," ","C","o","l","l","e","g","e">>, <<"2","0","1","8"," ","-"," ","2","0","2","2">>, <<"G","P","A"," ","3",".","9">>}
ExpAlphabet ==
    {<<"S","o","f","t","w","a","r","e"," ","E","n","g","i","n","e","e","r">>, <<"M","a","n","a","g","e","r">>, <<"A","c","m","e"," ","I","n","c",","," ","J","a","n"," ","2","0","2","0"," ","-"," ","P","r","e","s","e","n","t">>, <<"A","c","m","e",","," ","J","a","n"," ","2","0","2","0","-","P","r","e","s","e","n","t">>, <<"-"," ","b","u","i","l","t"," ","t","h","i","n","g","s">>, <<"w","o","r","k","e","d"," ","h","a","r","d"," ","o","n"," ","i","t",".">>}

\* the candidates normalize_section_header is applied to: every taxonomy
\* name with up to MaxDrop consecutive characters missing, in upper and in
\* lower case, and headers that only the keyword rules, or nothing, resolve
MaxDrop == 2
DropAt(w, p, n) == Slice(w, 1, p) \o Slice(w, p + n + 1, Len(w))
Misspelled ==
    UNION {{DropAt(STANDARD_SECTIONS[k], p, n) :
                p \in 0..(Len(STANDARD_SECTIONS[k]) - n)} :
              k \in DOMAIN STANDARD_SECTIONS, n \in 0..MaxDrop}
OtherHeaders ==
    {<<"M","y"," ","d","e","t","a","i","l","s">>, <<"M","y"," ","e","d","u","c","a","t","i","o","n">>, <<"W","o","r","k"," ","a","n","d"," ","j","o","b"," ","h","i","s","t","o","r","y">>, <<"Q","u","a","l","i","f","i","c","a","t","i","o","n"," ","l","i","s","t">>, <<" "," ","S","k","i","l","l","s"," ">>, <<"N","o","t","e","s">>, <<"E","R","R","O","R">>, <<"W","R","O","K"," ","H","I","S","T","R","O","Y">>, <<"G","E","N","E","R","A","L"," ","I","N","F","O","R","M","A","T","I","O","N">>, <<"p","y","t","h","o","n",","," ","j","a","v","a">>}
Candidates == Misspelled \cup {Lower(w) : w \in Misspelled} \cup OtherHeaders

AllLines == {Strip(ln) : ln \in SegAlphabet \cup FileAlphabet \cup ParAlphabet}

----------------------------------------------------------------------------
(* identify_sections                                                       *)

\* normalize_section_header on the lines the bounded inputs are built from
\* is computed once; any other line is computed on demand
HeaderMemo == [ln \in AllLines |-> normalize_section_header(ln)] @@ <<>>

Lookup(memo, line) ==
    IF line \in DOMAIN memo THEN memo[line] ELSE normalize_section_header(line)

\* line 104
Normalized(line) == Lookup(HeaderMemo, line)

\* IsHeader with "or" for "and" in the uppercase criterion
IsHeader_OrWordCount(line, normalized_header) ==
    \/ Truthy(normalized_header)
    \/ IsUpper(line) \/ WordCount(line) <= 5
    \/ re_match(TitleCaseRe, line) # NoMatch /\ WordCount(line) <= 4

\* lines 107-112: the header detection criteria
IsHeader(line, normalized_header) ==
    \/ Truthy(normalized_header)
    \/ IsUpper(line) /\ WordCount(line) <= 5
    \/ re_match(TitleCaseRe, line) # NoMatch /\ WordCount(line) <= 4

IsHeaderLine(line) == IsHeader(line, Normalized(line))

\* line 116
SectionName(line, normalized_header) ==
    IF Truthy(normalized_header) THEN normalized_header ELSE Upper(line)

SectionNameOf(line) == SectionName(line, Normalized(line))

\* SegInit without the initial GENERAL INFORMATION entry
SegInit_Empty ==
    [sections |-> <<>>, current_section |-> GENERAL_INFORMATION]

\* lines 95-97
SegInit ==
    [sections |-> <<<<GENERAL_INFORMATION, <<>>>>>>,
     current_section |-> GENERAL_INFORMATION]

\* OpenSection assigning an empty list whether or not the section exists
OpenSection_Resets(secs, name) ==
    IF HasKey(secs, name) THEN Put(secs, name, <<>>)
    ELSE Append(secs, <<name, <<>>>>)

\* lines 118-119 and 121-122: an absent section gets an empty list
OpenSection(secs, name) ==
    IF HasKey(secs, name) THEN secs ELSE Append(secs, <<name, <<>>>>)

\* AppendLine assigning the line instead of appending it
AppendLine_Overwrites(secs, name, line) == Put(secs, name, <<line>>)

\* line 123
AppendLine(secs, name, line) == Put(secs, name, Append(Get(secs, name), line))

\* lines 115-119: a header starts (or returns to) the section name
EnterSection(st, name) ==
    [sections |-> OpenSection(st.sections, name), current_section |-> name]

SegHeader(st, line) == EnterSection(st, SectionNameOf(line))

\* lines 120-123: a content line is appended to the current section
SegContent(st, line) ==
    [sections |-> AppendLine(OpenSection(st.sections, st.current_section),
                             st.current_section, line),
     current_section |-> st.current_section]

\* lines 107-123, given normalized_header of line 104
SegStepWith(st, line, normalized_header) ==
    IF IsHeader(line, normalized_header)
    THEN EnterSection(st, SectionName(line, normalized_header))
    ELSE SegContent(st, line)

\* one iteration of the loop at lines 101-123
SegStep(st, line) == SegStepWith(st, line, Normalized(line))

RECURSIVE SegFold(_, _)
SegFold(st, lns) ==
    IF Len(lns) = 0 THEN st ELSE SegFold(SegStep(st, Head(lns)), Tail(lns))

identify_sections(txt) == SegFold(SegInit, StrippedLines(txt)).sections

----------------------------------------------------------------------------
(* The field extractors                                                    *)

\* extract_education, lines 128-131, and extract_experience, lines 236-237
AccInit == [list |-> <<>>, cur |-> EmptyDict]

\* lines 135-137 and 244-246: a non-empty current entry is appended and a
\* new one is started
Flush(st) ==
    IF st.cur # EmptyDict
    THEN [list |-> Append(st.list, st.cur), cur |-> EmptyDict]
    ELSE st

IsDegreeLine(line) == re_search(DegreeRe, line) # NoMatch
IsInstitutionLine(line) == re_search(InstitutionRe, line) # NoMatch
IsDateLine(line) == re_search(DateRe, line) # NoMatch

\* EduStep testing the institution pattern before the degree pattern
EduStep_InstitutionFirst(st, line) ==
    IF IsInstitutionLine(line)
    THEN [st EXCEPT !.cur = SetKey(@, "institution", line)]
    ELSE IF IsDegreeLine(line)
    THEN [Flush(st) EXCEPT !.cur = SetKey(@, "degree", line)]
    ELSE IF IsDateLine(line)
    THEN [st EXCEPT !.cur = SetKey(@, "date", line)]
    ELSE st

\* extract_education, lines 132-146: one loop iteration
EduStep(st, line) ==
    IF IsDegreeLine(line)
    THEN [Flush(st) EXCEPT !.cur = SetKey(@, "degree", line)]
    ELSE IF IsInstitutionLine(line)
    THEN [st EXCEPT !.cur = SetKey(@, "institution", line)]
    ELSE IF IsDateLine(line)
    THEN [st EXCEPT !.cur = SetKey(@, "date", line)]
    ELSE st

\* AccFinish without the final flush
AccFinish_NoFlush(st) == st.list

\* lines 148-151 and 262-265: the final flush
AccFinish(st) == IF st.cur # EmptyDict THEN Append(st.list, st.cur) ELSE st.list

RECURSIVE EduFold(_, _)
EduFold(st, lns) ==
    IF Len(lns) = 0 THEN st ELSE EduFold(EduStep(st, Head(lns)), Tail(lns))

extract_education(txt) == AccFinish(EduFold(AccInit, StrippedLines(txt)))

\* extract_experience, lines 241-260: the three kinds of line
IsTitleLine(line) ==
    re_match(TitleCaseRe, line) # NoMatch /\ WordCount(line) <= 5
IsCompanyLine(line) == re_match(CompanyDateRe, line) # NoMatch
IsBulletLine(line) ==
    \/ Len(line) >= 2 /\ SubSeq(line, 1, 2) = <<"-", " ">>
    \/ re_match(BulletRe, line) # NoMatch

\* lines 251-254
SetCompany(cur, parts) ==
    IF Len(parts) >= 3
    THEN SetKey(SetKey(cur, "company", parts[1]),
                "date", Join(Tail(parts), <<" ">>))
    ELSE cur

\* lines 258-260
AddResponsibility(cur, item) ==
    SetKey(cur, "responsibilities",
           Append(IF "responsibilities" \in DOMAIN cur
                  THEN cur["responsibilities"] ELSE <<>>, item))

\* extract_experience, lines 241-260: one loop iteration
ExpStep(st, line) ==
    IF IsTitleLine(line)
    THEN [Flush(st) EXCEPT !.cur = SetKey(@, "title", line)]
    ELSE IF IsCompanyLine(line)
    THEN [st EXCEPT !.cur = SetCompany(@, re_split(CompanySplitRe, line))]
    ELSE IF IsBulletLine(line)
    THEN [st EXCEPT !.cur =
            AddResponsibility(@, Strip(Slice(line, 3, Len(line))))]
    ELSE st

RECURSIVE ExpFold(_, _)
ExpFold(st, lns) ==
    IF Len(lns) = 0 THEN st ELSE ExpFold(ExpStep(st, Head(lns)), Tail(lns))

extract_experience(txt) == AccFinish(ExpFold(AccInit, StrippedLines(txt)))

\* extract_languages
extract_languages(txt) == SelectNonEmpty(StripAll(SplitOn(txt, ItemSeps)))

\* extract_skills: the items of at most 5 words
extract_skills(txt) ==
    SelectSeq(StripAll(SplitOn(txt, ItemSeps)),
              LAMBDA item : item # <<>> /\ WordCount(item) <= 5)

\* extract_contact_info
W_https == <<"h","t","t","p","s",":","/","/">>

\* line 195
IsName(line) ==
    /\ IsTitle(line) \/ IsUpper(line)
    /\ 1 < WordCount(line)
    /\ WordCount(line) <= 4

\* lines[:5]
First5(lns) == Slice(lns, 1, Min(5, Len(lns)))

\* the first element of a list, None for an empty one
FirstOrNone(seq) == IF Len(seq) > 0 THEN seq[1] ELSE None

\* prefix + m.group(1), None when the search found nothing
GroupOrNone(prefix, s, m) == IF m # NoMatch THEN prefix \o Group(s, m) ELSE None

extract_contact_info(txt) ==
    [name |-> FirstOrNone(SelectSeq(First5(StrippedLines(txt)), IsName)),
     email |-> FirstOrNone(re_findall(EmailRe, txt)),
     phone |-> StripAll(re_findall(PhoneRe, txt)),
     linkedin |-> GroupOrNone(W_https, txt, re_search(LinkedinRe, txt)),
     address |-> GroupOrNone(<<>>, txt, re_search(AddressRe, txt)),
     website |-> None]

----------------------------------------------------------------------------
(* extract_structured_data                                                 *)

CONTACT_INFORMATION == <<"C","O","N","T","A","C","T"," ","I","N","F","O","R","M","A","T","I","O","N">>
SKILLS == <<"S","K","I","L","L","S">>
TECHNICAL_SKILLS == <<"T","E","C","H","N","I","C","A","L"," ","S","K","I","L","L","S">>
SOFT_SKILLS == <<"S","O","F","T"," ","S","K","I","L","L","S">>
EXPERIENCE == <<"E","X","P","E","R","I","E","N","C","E">>
LANGUAGES == <<"L","A","N","G","U","A","G","E","S">>
K_contact == <<"c","o","n","t","a","c","t">>
K_skills == <<"s","k","i","l","l","s">>
K_experience == <<"e","x","p","e","r","i","e","n","c","e">>
K_education == <<"e","d","u","c","a","t","i","o","n">>
K_languages == <<"l","a","n","g","u","a","g","e","s">>
K_error == <<"e","r","r","o","r">>

\* section.lower().replace(" ", "_")
Slug(name) ==
    [k \in 1..Len(name) |-> IF name[k] = " " THEN "_" ELSE LowerChar(name[k])]

\* the key that lines 166-177 write for a section
OutputKey(section) ==
    IF section \in {W_CONTACT, CONTACT_INFORMATION} THEN K_contact
    ELSE IF section \in {SKILLS, TECHNICAL_SKILLS, SOFT_SKILLS} THEN K_skills
    ELSE IF section \in {EXPERIENCE, WORK_EXPERIENCE} THEN K_experience
    ELSE IF section = W_EDUCATION THEN K_education
    ELSE IF section = LANGUAGES THEN K_languages
    ELSE Slug(section)

\* the value that lines 166-177 write for a section, given content_text
SectionValue(section, content_text) ==
    IF section \in {W_CONTACT, CONTACT_INFORMATION}
    THEN extract_contact_info(content_text)
    ELSE IF section \in {SKILLS, TECHNICAL_SKILLS, SOFT_SKILLS}
    THEN extract_skills(content_text)
    ELSE IF section \in {EXPERIENCE, WORK_EXPERIENCE}
    THEN extract_experience(content_text)
    ELSE IF section = W_EDUCATION THEN extract_education(content_text)
    ELSE IF section = LANGUAGES THEN extract_languages(content_text)
    ELSE content_text

\* lines 163-177
OutputValue(section, content) == SectionValue(section, Join(content, <<NL>>))

\* one iteration of the loop at lines 162-177
Dispatch(data, pair) ==
    SetKey(data, OutputKey(pair[1]), OutputValue(pair[1], pair[2]))

RECURSIVE DispatchFold(_, _)
DispatchFold(data, secs) ==
    IF Len(secs) = 0 THEN data
    ELSE DispatchFold(Dispatch(data, Head(secs)), Tail(secs))

extract_structured_data(secs) == DispatchFold(EmptyDict, secs)

----------------------------------------------------------------------------
(* State                                                                   *)

VARIABLES
    pc,               \* the position of the running function
    text,             \* the text a function works on
    lines,            \* its stripped non-empty lines (lines 99, 129, 239)
    pos,              \* how many of lines the loop has consumed
    sections,         \* identify_sections: the mapping being built
    current_section,  \* identify_sections: the current section name
    file_path,        \* process_file: the path argument
    exists,           \* process_file: what os.path.exists answers
    file_ext,         \* process_file: the lowercased extension
    raised,           \* process_file: the message of a raised exception
    structured_data,  \* extract_structured_data: the mapping being built
    pending,          \* the sections a dispatch has not processed yet
    result,           \* process_file: the returned mapping
    calls,            \* history: the stages process_file has called
    extractor,        \* which entry accumulator runs
    entries,          \* education_list / experiences
    current_entry,    \* current_edu / current_exp
    candidate,        \* normalize_section_header: the argument
    canonical,        \* normalize_section_header: the returned value
    recanonical       \* normalize_section_header applied to that value

segVars == <<lines, pos, sections, current_section>>
fileVars == <<file_path, exists, file_ext, raised, result, calls>>
dataVars == <<structured_data, pending>>
accVars == <<extractor, entries, current_entry>>
normVars == <<candidate, canonical, recanonical>>

vars == <<pc, text, segVars, fileVars, dataVars, accVars, normVars>>

\* the values of the variables a specification does not use
IdleSeg ==
    lines = <<>> /\ pos = 0 /\ sections = <<>> /\ current_section = None
IdleFile ==
    /\ file_path = <<>> /\ exists = FALSE /\ file_ext = <<>>
    /\ raised = None /\ result = None /\ calls = <<>>
IdleData == structured_data = EmptyDict /\ pending = {}
IdleAcc == extractor = "none" /\ entries = <<>> /\ current_entry = EmptyDict
IdleNorm == candidate = <<>> /\ canonical = None /\ recanonical = None

----------------------------------------------------------------------------
(* identify_sections, one loop iteration per step                          *)

SegTexts == {Join(raw, <<NL>>) : raw \in SeqsUpTo(SegAlphabet, MaxSegLines)}

SegSt == [sections |-> sections, current_section |-> current_section]

InitSeg ==
    /\ pc = "identify_sections"
    /\ text \in SegTexts
    /\ IdleSeg /\ IdleFile /\ IdleData /\ IdleAcc /\ IdleNorm

\* lines 95-99
SegBegin ==
    /\ pc = "identify_sections"
    /\ sections' = SegInit.sections
    /\ current_section' = SegInit.current_section
    /\ lines' = StrippedLines(text)
    /\ pos' = 0
    /\ pc' = "seg_loop"
    /\ UNCHANGED <<text, fileVars, dataVars, accVars, normVars>>

\* lines 101-119, for a line classified as a header
SegHeaderStep ==
    /\ pc = "seg_loop"
    /\ pos < Len(lines)
    /\ \E normalized_header \in {Normalized(lines[pos + 1])} :
          /\ IsHeader(lines[pos + 1], normalized_header)
          /\ \E nxt \in {EnterSection(SegSt,
                            SectionName(lines[pos + 1], normalized_header))} :
                /\ sections' = nxt.sections
                /\ current_section' = nxt.current_section
    /\ pos' = pos + 1
    /\ UNCHANGED <<pc, text, lines, fileVars, dataVars, accVars, normVars>>

\* lines 101-112 and 120-123, for a content line
SegContentStep ==
    /\ pc = "seg_loop"
    /\ pos < Len(lines)
    /\ ~IsHeaderLine(lines[pos + 1])
    /\ \E nxt \in {SegContent(SegSt, lines[pos + 1])} :
          /\ sections' = nxt.sections
          /\ current_section' = nxt.current_section
    /\ pos' = pos + 1
    /\ UNCHANGED <<pc, text, lines, fileVars, dataVars, accVars, normVars>>

\* line 125
SegReturn ==
    /\ pc = "seg_loop"
    /\ pos = Len(lines)
    /\ pc' = "seg_done"
    /\ UNCHANGED <<text, segVars, fileVars, dataVars, accVars, normVars>>

NextSeg == SegBegin \/ SegHeaderStep \/ SegContentStep \/ SegReturn

SpecSeg == InitSeg /\ [][NextSeg]_vars

----------------------------------------------------------------------------
(* process_file                                                            *)

W_pdf == <<".","p","d","f">>
ImageExts == {<<".","p","n","g">>, <<".","j","p","g">>, <<".","j","p","e","g">>}
MSG_NotFound == <<"F","i","l","e"," ","n","o","t"," ","f","o","u","n","d">>
MSG_Unsupported == <<"U","n","s","u","p","p","o","r","t","e","d"," ","f","i","l","e"," ","t","y","p","e">>
MSG_NoText == <<"N","o"," ","t","e","x","t"," ","c","o","u","l","d"," ","b","e"," ","e","x","t","r","a","c","t","e","d">>

\* str.rfind for one character, counting from 1: 0 when absent
LastIndex(path, c) == MaxOf({k \in 1..Len(path) : path[k] = c} \cup {0})

\* the extension starts at the last dot if that dot is in the last path
\* component and a character other than a dot precedes it there
ExtFrom(path, sepIndex, dotIndex) ==
    IF dotIndex > sepIndex
       /\ \E k \in (sepIndex + 1)..(dotIndex - 1) : path[k] # "."
    THEN SubSeq(path, dotIndex, Len(path))
    ELSE <<>>

\* os.path.splitext(path)[1]
splitext(path) == ExtFrom(path, LastIndex(path, "/"), LastIndex(path, "."))

\* {"error": message}
ErrorObject(msg) == SetKey(EmptyDict, K_error, msg)

FileTexts == {Join(raw, <<NL>>) : raw \in SeqsUpTo(FileAlphabet, MaxFileLines)}

Init ==
    /\ pc = "process_file"
    /\ file_path \in FilePaths
    /\ exists \in BOOLEAN
    /\ file_ext = <<>>
    /\ raised = None
    /\ result = None
    /\ calls = <<>>
    /\ text = <<>>
    /\ sections = <<>>
    /\ lines = <<>> /\ pos = 0 /\ current_section = None
    /\ IdleData /\ IdleAcc /\ IdleNorm

\* lines 269-270
PfFileNotFound ==
    /\ pc = "process_file"
    /\ ~exists
    /\ result' = ErrorObject(MSG_NotFound)
    /\ pc' = "returned"
    /\ UNCHANGED <<text, segVars, file_path, exists, file_ext, raised, calls,
                   dataVars, accVars, normVars>>

\* line 272
PfSplitExt ==
    /\ pc = "process_file"
    /\ exists
    /\ file_ext' = Lower(splitext(file_path))
    /\ pc' = "pf_extract"
    /\ UNCHANGED <<text, segVars, file_path, exists, raised, result, calls,
                   dataVars, accVars, normVars>>

\* lines 276-277: the PDF collaborator returns some text
PfExtractPdf ==
    /\ pc = "pf_extract"
    /\ file_ext = W_pdf
    /\ \E t \in FileTexts : text' = t
    /\ calls' = Append(calls, "extract_text_from_pdf")
    /\ pc' = "pf_check_text"
    /\ UNCHANGED <<segVars, file_path, exists, file_ext, raised, result,
                   dataVars, accVars, normVars>>

\* lines 278-279: the image collaborator returns some text
PfExtractImage ==
    /\ pc = "pf_extract"
    /\ file_ext \in ImageExts
    /\ \E t \in FileTexts : text' = t
    /\ calls' = Append(calls, "extract_text_from_image_file")
    /\ pc' = "pf_check_text"
    /\ UNCHANGED <<segVars, file_path, exists, file_ext, raised, result,
                   dataVars, accVars, normVars>>

\* lines 276-279 and 292-293: the collaborator raises
PfExtractRaises ==
    /\ pc = "pf_extract"
    /\ file_ext = W_pdf \/ file_ext \in ImageExts
    /\ \E msg \in ExtractionErrors :
          /\ raised' = msg
          /\ result' = ErrorObject(msg)
    /\ calls' = Append(calls, IF file_ext = W_pdf THEN "extract_text_from_pdf"
                              ELSE "extract_text_from_image_file")
    /\ pc' = "returned"
    /\ UNCHANGED <<text, segVars, file_path, exists, file_ext,
                   dataVars, accVars, normVars>>

\* lines 280-281
PfUnsupported ==
    /\ pc = "pf_extract"
    /\ file_ext # W_pdf
    /\ file_ext \notin ImageExts
    /\ result' = ErrorObject(MSG_Unsupported)
    /\ pc' = "returned"
    /\ UNCHANGED <<text, segVars, file_path, exists, file_ext, raised, calls,
                   dataVars, accVars, normVars>>

\* PfNoText going on to the segmenter instead of returning the error
PfNoText_Continues ==
    /\ pc = "pf_check_text"
    /\ Strip(text) = <<>>
    /\ sections' = identify_sections(text)
    /\ calls' = Append(calls, "identify_sections")
    /\ pc' = "pf_structure"
    /\ UNCHANGED <<text, lines, pos, current_section, file_path, exists,
                   file_ext, raised, result, dataVars, accVars, normVars>>

\* lines 283-284
PfNoText ==
    /\ pc = "pf_check_text"
    /\ Strip(text) = <<>>
    /\ result' = ErrorObject(MSG_NoText)
    /\ pc' = "returned"
    /\ UNCHANGED <<text, segVars, file_path, exists, file_ext, raised, calls,
                   dataVars, accVars, normVars>>

\* line 287
PfIdentify ==
    /\ pc = "pf_check_text"
    /\ Strip(text) # <<>>
    /\ sections' = identify_sections(text)
    /\ calls' = Append(calls, "identify_sections")
    /\ pc' = "pf_structure"
    /\ UNCHANGED <<text, lines, pos, current_section, file_path, exists,
                   file_ext, raised, result, dataVars, accVars, normVars>>

\* line 288
PfStructure ==
    /\ pc = "pf_structure"
    /\ structured_data' = extract_structured_data(sections)
    /\ calls' = Append(calls, "extract_structured_data")
    /\ pc' = "pf_return"
    /\ UNCHANGED <<text, segVars, file_path, exists, file_ext, raised, result,
                   pending, accVars, normVars>>

\* line 290
PfReturn ==
    /\ pc = "pf_return"
    /\ result' = structured_data
    /\ pc' = "returned"
    /\ UNCHANGED <<text, segVars, file_path, exists, file_ext, raised, calls,
                   dataVars, accVars, normVars>>

Next ==
    \/ PfFileNotFound \/ PfSplitExt \/ PfExtractPdf \/ PfExtractImage
    \/ PfExtractRaises \/ PfUnsupported \/ PfNoText \/ PfIdentify
    \/ PfStructure \/ PfReturn

Spec == Init /\ [][Next]_vars

----------------------------------------------------------------------------
(* Properties of identify_sections                                         *)

\* the concatenation of the section lists, in section-insertion order
RECURSIVE FlattenSections(_)
FlattenSections(secs) ==
    IF Len(secs) = 0 THEN <<>>
    ELSE Head(secs)[2] \o FlattenSections(Tail(secs))

\* the number of occurrences of x in seq
Occurrences(seq, x) == Cardinality({k \in 1..Len(seq) : seq[k] = x})

SameMultiset(s1, s2) ==
    /\ Len(s1) = Len(s2)
    /\ \A k \in 1..Len(s1) : Occurrences(s1, s1[k]) = Occurrences(s2, s1[k])

RECURSIVE IsSubsequence(_, _)
\* sub can be obtained from seq by deleting elements
IsSubsequence(sub, seq) ==
    IF Len(sub) = 0 THEN TRUE
    ELSE IF Len(seq) = 0 THEN FALSE
    ELSE IF Head(sub) = Head(seq) THEN IsSubsequence(Tail(sub), Tail(seq))
    ELSE IsSubsequence(sub, Tail(seq))

\* the input lines the loop has consumed so far
Consumed == SubSeq(lines, 1, pos)

IsContentLine(ln) == ~IsHeaderLine(ln)

\* the section a line at position k belongs to: the name given by the most
\* recent header among lines[1..k], GENERAL INFORMATION when there is none
OwnerAt(lns, k) ==
    LET heads == {h \in 1..k : IsHeaderLine(lns[h])}
    IN IF heads = {} THEN GENERAL_INFORMATION
       ELSE SectionNameOf(lns[CHOOSE h \in heads : \A g \in heads : h >= g])

\* C1 as stated: the section lists, concatenated in section-insertion
\* order, are exactly the non-empty trimmed input lines
C1_LosslessPartition ==
    pc = "seg_done" => FlattenSections(sections) = StrippedLines(text)

\* C1 amended: at every point of the loop the section lists hold exactly the
\* content (non-header) lines consumed so far, as a multiset, each list in
\* input order; header lines are in no list
C1_ContentPartition ==
    pc \in {"seg_loop", "seg_done"} =>
        /\ SameMultiset(FlattenSections(sections),
                        SelectSeq(Consumed, IsContentLine))
        /\ \A k \in 1..Len(sections) :
              IsSubsequence(sections[k][2], SelectSeq(Consumed, IsContentLine))
        /\ pc = "seg_done" => Consumed = StrippedLines(text)

\* a finished run in which a header line was dropped and a content line kept
C1_Witness ==
    /\ pc = "seg_done"
    /\ \E k \in 1..Len(lines) : IsHeaderLine(lines[k])
    /\ Len(FlattenSections(sections)) >= 2
    /\ FlattenSections(sections) # SelectSeq(lines, IsContentLine)

\* C7: when no line is a header by any of the three criteria, the result is
\* the single section GENERAL INFORMATION holding all lines in order
C7_NoHeaders ==
    (/\ pc = "seg_done"
     /\ \A k \in 1..Len(StrippedLines(text)) :
           LET ln == StrippedLines(text)[k]
           IN /\ ~Truthy(Normalized(ln))
              /\ ~(IsUpper(ln) /\ WordCount(ln) <= 5)
              /\ ~(re_match(TitleCaseRe, ln) # NoMatch /\ WordCount(ln) <= 4))
    => sections = <<<<GENERAL_INFORMATION, StrippedLines(text)>>>>

\* a finished run over header-free text with several lines, one of which was
\* trimmed, and a whitespace-only line dropped
C7_Witness ==
    /\ pc = "seg_done"
    /\ \A k \in 1..Len(lines) : ~IsHeaderLine(lines[k])
    /\ Len(lines) >= 2
    /\ Len(SplitOn(text, {NL})) > Len(lines)
    /\ \E k \in 1..Len(lines) : lines[k] \notin SegAlphabet

\* C8: a header step only switches the current section (creating it empty
\* when new, leaving every existing list as it was); a content step appends
\* the line to the section of the most recent preceding header
C8_HeaderFrame ==
    [][(pc = "seg_loop" /\ pos' = pos + 1) =>
        LET ln == lines[pos']
            name == SectionNameOf(ln)
        IN IF IsHeaderLine(ln)
           THEN /\ current_section' = name
                /\ \A k \in 1..Len(sections) : sections'[k] = sections[k]
                /\ IF HasKey(sections, name)
                   THEN sections' = sections
                   ELSE sections' = Append(sections, <<name, <<>>>>)
           ELSE /\ current_section' = current_section
                /\ current_section = OwnerAt(lines, pos)
                /\ Keys(sections') = Keys(sections)
                /\ \A k \in 1..Len(sections) :
                      sections'[k][2] =
                          IF sections[k][1] = current_section
                          THEN Append(sections[k][2], ln)
                          ELSE sections[k][2]]_vars

\* a repeated header was followed by a content line that joined the lines
\* the section already held
C8_Witness ==
    /\ pc = "seg_loop"
    /\ pos >= 3
    /\ IsContentLine(lines[pos])
    /\ \E h \in 2..(pos - 1) :
          /\ IsHeaderLine(lines[h])
          /\ SectionNameOf(lines[h]) = current_section
          /\ \A k \in (h + 1)..pos : IsContentLine(lines[k])
          /\ \E g \in 1..(h - 1) :
                IsContentLine(lines[g]) /\ OwnerAt(lines, g) = current_section
    /\ Len(Get(sections, current_section)) >= 2

----------------------------------------------------------------------------
(* Properties of process_file                                              *)

Supported(ext) == ext = W_pdf \/ ext \in ImageExts

\* the run extracted non-empty text and no exception was raised
Succeeded ==
    pc = "returned" /\ exists /\ raised = None /\ Strip(text) # <<>>

\* the header lines of the extracted text
HeaderLinesOf(txt) ==
    {ln \in Range(StrippedLines(txt)) : IsHeaderLine(ln)}

\* C2 as stated: a returned mapping that has the key "error" has no other
\* key, and a successful run returns a mapping without the key "error"
C2_ErrorXorRecord ==
    pc = "returned" =>
        /\ K_error \in DOMAIN result => DOMAIN result = {K_error}
        /\ Succeeded => K_error \notin DOMAIN result

\* C3 as stated: every key of the record of a successful run is the output
\* key of a header line of the text, or is general_information when a
\* content line precedes the first header
C3_KeysOnlyForFound ==
    Succeeded =>
        \A key \in DOMAIN result :
            \/ \E ln \in HeaderLinesOf(text) : OutputKey(SectionNameOf(ln)) = key
            \/ /\ key = Slug(GENERAL_INFORMATION)
               /\ ~IsHeaderLine(StrippedLines(text)[1])

\* C3 amended: the record of a successful run has the key
\* general_information whatever the text is, and besides it exactly the
\* output keys of the header lines of the text
C3_KeysFromHeaders ==
    Succeeded =>
        DOMAIN result =
            {Slug(GENERAL_INFORMATION)}
            \cup {OutputKey(SectionNameOf(ln)) : ln \in HeaderLinesOf(text)}

\* a successful run over a text that starts with a header: the record has
\* general_information with the empty string, and the header's key
C3_Witness ==
    /\ Succeeded
    /\ IsHeaderLine(StrippedLines(text)[1])
    /\ result[Slug(GENERAL_INFORMATION)] = <<>>
    /\ K_skills \in DOMAIN result

\* C6: a finished run reports the first failing check, in the order
\* existence, extension, extraction, empty text, and has called nothing
\* after it; no stage is called twice
C6_FailureOrder ==
    pc = "returned" =>
        /\ ~exists =>
              result = ErrorObject(MSG_NotFound) /\ calls = <<>>
        /\ exists /\ ~Supported(Lower(splitext(file_path))) =>
              result = ErrorObject(MSG_Unsupported) /\ calls = <<>>
        /\ raised # None =>
              result = ErrorObject(raised) /\ Len(calls) = 1
        /\ (/\ exists /\ Supported(Lower(splitext(file_path)))
            /\ raised = None /\ Strip(text) = <<>>) =>
              /\ result = ErrorObject(MSG_NoText)
              /\ calls \in {<<"extract_text_from_pdf">>,
                            <<"extract_text_from_image_file">>}
        /\ \A i, j \in DOMAIN calls : calls[i] = calls[j] => i = j

\* an existing PDF with an uppercase extension whose text is only
\* whitespace: the extraction ran, the segmenter did not
C6_Witness ==
    /\ pc = "returned"
    /\ exists
    /\ file_path # Lower(file_path)
    /\ text # <<>>
    /\ result = ErrorObject(MSG_NoText)
    /\ calls = <<"extract_text_from_pdf">>

----------------------------------------------------------------------------
(* extract_structured_data with the sections dispatched in any order       *)

ParDocs ==
    {identify_sections(Join(raw, <<NL>>)) :
        raw \in SeqsUpTo(ParAlphabet, MaxParLines)}

InitPar ==
    /\ pc = "extract_structured_data"
    /\ sections \in ParDocs
    /\ text = <<>> /\ lines = <<>> /\ pos = 0 /\ current_section = None
    /\ IdleFile /\ IdleData /\ IdleAcc /\ IdleNorm

\* line 159
ParBegin ==
    /\ pc = "extract_structured_data"
    /\ structured_data' = EmptyDict
    /\ pending' = DOMAIN sections
    /\ pc' = "par_loop"
    /\ UNCHANGED <<text, segVars, fileVars, accVars, normVars>>

\* lines 163-177 for one section, whichever has not been processed yet
ParDispatch ==
    /\ pc = "par_loop"
    /\ \E k \in pending :
          /\ structured_data' = Dispatch(structured_data, sections[k])
          /\ pending' = pending \ {k}
    /\ UNCHANGED <<pc, text, segVars, fileVars, accVars, normVars>>

\* line 179
ParReturn ==
    /\ pc = "par_loop"
    /\ pending = {}
    /\ pc' = "par_done"
    /\ UNCHANGED <<text, segVars, fileVars, dataVars, accVars, normVars>>

NextPar == ParBegin \/ ParDispatch \/ ParReturn

SpecPar == InitPar /\ [][NextPar]_vars

\* C4 as stated: whatever the order in which the sections were processed,
\* the collected mapping is the one that processing them in
\* section-insertion order gives
C4_OrderIndependent ==
    pc = "par_done" => structured_data = extract_structured_data(sections)

----------------------------------------------------------------------------
(* normalize_section_header, applied to a candidate and then to its result *)

InitNorm ==
    /\ pc = "normalize_section_header"
    /\ candidate \in Candidates
    /\ canonical = None /\ recanonical = None
    /\ text = <<>>
    /\ IdleSeg /\ IdleFile /\ IdleData /\ IdleAcc

\* lines 70-91
NormCall ==
    /\ pc = "normalize_section_header"
    /\ canonical' = normalize_section_header(candidate)
    /\ pc' = "norm_returned"
    /\ UNCHANGED <<text, segVars, fileVars, dataVars, accVars,
                   candidate, recanonical>>

\* lines 70-91, on the name the first call returned
NormAgain ==
    /\ pc = "norm_returned"
    /\ canonical # None
    /\ recanonical' = normalize_section_header(canonical)
    /\ pc' = "norm_again"
    /\ UNCHANGED <<text, segVars, fileVars, dataVars, accVars,
                   candidate, canonical>>

NextNorm == NormCall \/ NormAgain

SpecNorm == InitNorm /\ [][NextNorm]_vars

\* C5: a name that normalize_section_header returns is in the taxonomy and
\* is its own normalisation
C5_Idempotent ==
    /\ pc \in {"norm_returned", "norm_again"} /\ canonical # None
           => InTaxonomy(canonical)
    /\ pc = "norm_again" => recanonical = canonical

\* a candidate outside the taxonomy was resolved and its name normalised
\* again
C5_Witness ==
    /\ pc = "norm_again"
    /\ ~InTaxonomy(Strip(Upper(candidate)))
    /\ canonical # None
    /\ recanonical # None

----------------------------------------------------------------------------
(* extract_education and extract_experience, one loop iteration per step   *)

AccTexts(alphabet) ==
    {Join(raw, <<NL>>) : raw \in SeqsUpTo(alphabet, MaxAccLines)}

AccSt == [list |-> entries, cur |-> current_entry]

InitAcc ==
    /\ pc = "extract_entries"
    /\ \/ extractor = "education" /\ text \in AccTexts(EduAlphabet)
       \/ extractor = "experience" /\ text \in AccTexts(ExpAlphabet)
    /\ entries = <<>> /\ current_entry = EmptyDict
    /\ IdleSeg /\ IdleFile /\ IdleData /\ IdleNorm

\* lines 128-131 and 236-239
AccBegin ==
    /\ pc = "extract_entries"
    /\ entries' = AccInit.list
    /\ current_entry' = AccInit.cur
    /\ lines' = StrippedLines(text)
    /\ pos' = 0
    /\ pc' = "acc_loop"
    /\ UNCHANGED <<text, sections, current_section, fileVars, dataVars,
                   extractor, normVars>>

\* extract_education, lines 132-146, for the next line
EduLine ==
    /\ pc = "acc_loop"
    /\ extractor = "education"
    /\ pos < Len(lines)
    /\ \E nxt \in {EduStep(AccSt, lines[pos + 1])} :
          /\ entries' = nxt.list
          /\ current_entry' = nxt.cur
    /\ pos' = pos + 1
    /\ UNCHANGED <<pc, text, lines, sections, current_section, fileVars,
                   dataVars, extractor, normVars>>

\* extract_experience, lines 241-260, for the next line
ExpLine ==
    /\ pc = "acc_loop"
    /\ extractor = "experience"
    /\ pos < Len(lines)
    /\ \E nxt \in {ExpStep(AccSt, lines[pos + 1])} :
          /\ entries' = nxt.list
          /\ current_entry' = nxt.cur
    /\ pos' = pos + 1
    /\ UNCHANGED <<pc, text, lines, sections, current_section, fileVars,
                   dataVars, extractor, normVars>>

\* lines 148-151 and 262-265
AccReturn ==
    /\ pc = "acc_loop"
    /\ pos = Len(lines)
    /\ entries' = AccFinish(AccSt)
    /\ pc' = "acc_done"
    /\ UNCHANGED <<text, segVars, fileVars, dataVars, extractor,
                   current_entry, normVars>>

NextAcc == AccBegin \/ EduLine \/ ExpLine \/ AccReturn

SpecAcc == InitAcc /\ [][NextAcc]_vars

\* the line starts an entry: a degree line for extract_education, a title
\* line for extract_experience
StartsEntry(ln) ==
    IF extractor = "education" THEN IsDegreeLine(ln) ELSE IsTitleLine(ln)

StartField == IF extractor = "education" THEN "degree" ELSE "title"

\* C9: an entry with a field set is emitted when the next entry-starting
\* line arrives or at the end of the input, and the entry under
\* construction is then a new one; no other step emits or drops anything;
\* emitted entries stay as they were emitted, and none is empty
C9_FlushInvariant ==
    [][/\ (pc = "acc_loop" /\ pos' = pos + 1) =>
              IF StartsEntry(lines[pos']) /\ current_entry # EmptyDict
              THEN /\ entries' = Append(entries, current_entry)
                   /\ current_entry' = [f \in {StartField} |-> lines[pos']]
              ELSE /\ entries' = entries
                   /\ DOMAIN current_entry \subseteq DOMAIN current_entry'
       /\ (pc = "acc_loop" /\ pc' = "acc_done") =>
              entries' = IF current_entry # EmptyDict
                         THEN Append(entries, current_entry)
                         ELSE entries
       /\ \A k \in DOMAIN entries' : entries'[k] # EmptyDict]_vars

\* extract_experience returned two or more entries: the first was emitted
\* by a title line, the last, which has responsibilities, at the end
C9_Witness ==
    /\ pc = "acc_done"
    /\ extractor = "experience"
    /\ Len(entries) >= 2
    /\ entries[Len(entries)] = current_entry
    /\ "responsibilities" \in DOMAIN current_entry

\* the number of degree lines, and 1 if an institution or date line comes
\* before every degree line
DegreeCount(lns) == Cardinality({k \in DOMAIN lns : IsDegreeLine(lns[k])})
LeadingEntry(lns) ==
    IF \E k \in DOMAIN lns :
          /\ IsInstitutionLine(lns[k]) \/ IsDateLine(lns[k])
          /\ \A j \in 1..k : ~IsDegreeLine(lns[j])
    THEN 1 ELSE 0

\* C10: in extract_education a degree line emits the current entry if it
\* has a field and starts a new one; otherwise an institution line, else a
\* date line, writes its field into the current entry and emits nothing;
\* any other line changes nothing; and the number of entries returned is
\* the number of degree lines, plus one when an institution or date line
\* precedes them all
C10_Transitions ==
    [][/\ (extractor = "education" /\ pc = "acc_loop" /\ pos' = pos + 1) =>
              IF IsDegreeLine(lines[pos'])
              THEN /\ current_entry' = [f \in {"degree"} |-> lines[pos']]
                   /\ entries' = IF current_entry # EmptyDict
                                 THEN Append(entries, current_entry)
                                 ELSE entries
              ELSE IF IsInstitutionLine(lines[pos'])
              THEN /\ entries' = entries
                   /\ current_entry' =
                          SetKey(current_entry, "institution", lines[pos'])
              ELSE IF IsDateLine(lines[pos'])
              THEN /\ entries' = entries
                   /\ current_entry' = SetKey(current_entry, "date", lines[pos'])
              ELSE entries' = entries /\ current_entry' = current_entry
       /\ (extractor = "education" /\ pc = "acc_loop" /\ pc' = "acc_done") =>
              Len(entries') = DegreeCount(lines) + LeadingEntry(lines)]_vars

\* extract_education returned one entry more than there are degree lines,
\* for lines of which one matches the degree and the institution patterns
\* and one institution line overwrote another
C10_Witness ==
    /\ pc = "acc_done"
    /\ extractor = "education"
    /\ DegreeCount(lines) >= 1
    /\ Len(entries) = DegreeCount(lines) + 1
    /\ \E k \in DOMAIN lines :
          IsDegreeLine(lines[k]) /\ IsInstitutionLine(lines[k])
    /\ \E j, k \in DOMAIN lines :
          /\ j < k
          /\ IsInstitutionLine(lines[j]) /\ ~IsDegreeLine(lines[j])
          /\ IsInstitutionLine(lines[k]) /\ ~IsDegreeLine(lines[k])
          /\ \A m \in j..k : ~IsDegreeLine(lines[m])

====
